---------------------------- MODULE Spec2Model ----------------------------
(***************************************************************************)
(* A model of final_clean.py: the batch pipeline that loads a constituent  *)
(* export, normalises it, geocodes missing coordinates, merges interest    *)
(* data, fills missing values and writes a master CSV plus one CSV per     *)
(* affiliation.                                                            *)
(*                                                                         *)
(* Python values are modelled as cells (records tagged with their type),   *)
(* text as sequences of one-character strings, so that str.replace,        *)
(* str.split, str.strip and float() are computed character by character.   *)
(* A raised exception is an outcome [ok |-> FALSE, err |-> <name>].        *)
(***************************************************************************)
EXTENDS Integers, Sequences, FiniteSets, TLC

VARIABLES
    pc,                   \* position of main (or of the function under call)
    new_data,             \* the loaded main table (main, line 336)
    geocoded_data,        \* the loaded reference table, or NoTable (line 343)
    interest_df,          \* the interest table read by handle_interest_data
    df,                   \* merged_data / processed_data of main
    all_affiliations,     \* the token set returned by create_affiliation_columns
    addresses_to_geocode, \* the dict built by collect_addresses_to_geocode
    todo,                 \* candidates batch_geocode_addresses has yet to visit
    calls,                \* the geocode() invocations made so far, in order
    error,                \* the exception that ended the run, or "none"
    processed_csv,        \* the rows written to processed_complete.csv
    affiliations,         \* tokens save_affiliation_files has yet to visit
    files,                \* the affiliation_layers directory: filename -> rows
    arg,                  \* argument of the function under call
    ret                   \* its outcome

vars == <<pc, new_data, geocoded_data, interest_df, df, all_affiliations,
          addresses_to_geocode, todo, calls, error, processed_csv,
          affiliations, files, arg, ret>>

-----------------------------------------------------------------------------
(* Bounds *)

\* longest text enumerated as an input of replace
MaxLen == 3
\* most rows of the main table
MaxRows == 2
\* most rows of the geocoded reference table
MaxRef == 2
\* most columns of a frame handed to fill_missing_values on its own
MaxCols == 2

-----------------------------------------------------------------------------
(* Text: Python str as a sequence of characters *)

RECURSIVE str_replace(_, _, _)
\* s.replace(old, new) for a one-character old
str_replace(s, old, new) ==
    IF s = <<>> THEN <<>>
    ELSE (IF Head(s) = old THEN new ELSE <<Head(s)>>)
         \o str_replace(Tail(s), old, new)

RECURSIVE str_split(_, _)
\* s.split(sep) for a one-character sep: always at least one piece
str_split(s, sep) ==
    IF \A i \in 1..Len(s) : s[i] # sep THEN <<s>>
    ELSE LET k == CHOOSE i \in 1..Len(s) :
                      s[i] = sep /\ \A j \in 1..(i - 1) : s[j] # sep
         IN  <<SubSeq(s, 1, k - 1)>> \o str_split(SubSeq(s, k + 1, Len(s)), sep)

Whitespace == {" ", "\t", "\n"}

RECURSIVE str_lstrip(_)
str_lstrip(s) ==
    IF s # <<>> /\ Head(s) \in Whitespace THEN str_lstrip(Tail(s)) ELSE s

RECURSIVE str_rstrip(_)
str_rstrip(s) ==
    IF s # <<>> /\ s[Len(s)] \in Whitespace
    THEN str_rstrip(SubSeq(s, 1, Len(s) - 1)) ELSE s

\* s.strip()
str_strip(s) == str_rstrip(str_lstrip(s))

\* all texts over alphabet A of length at most n
TextsUpTo(A, n) == UNION {[1..k -> A] : k \in 0..n}

-----------------------------------------------------------------------------
(* Cells: the values a table cell or a function argument can hold *)

\* NaN / None / NaT: whatever pd.isna accepts
Null == [t |-> "null", s |-> <<>>, m |-> 0, e |-> 0]
\* a str
Str(s) == [t |-> "str", s |-> s, m |-> 0, e |-> 0]
\* an int or float, the decimal m * 10^-e
Dec(m, e) == [t |-> "num", s |-> <<>>, m |-> m, e |-> e]
Num(n) == Dec(n, 0)
\* a Timestamp (yyyymmdd): non-null, neither str nor number
Date(d) == [t |-> "date", s |-> <<>>, m |-> d, e |-> 0]

isna(x) == x.t = "null"

Ok(v) == [ok |-> TRUE, val |-> v, err |-> "none"]
Raise(e) == [ok |-> FALSE, val |-> Null, err |-> e]

-----------------------------------------------------------------------------
(* float(): the decimal literals Python accepts, over the characters used   *)
(* by the inputs (digits, point, sign, surrounding whitespace)              *)

DigitChars == {"0", "1", "2", "3", "4", "5", "6", "7", "8", "9"}

DigitVal(c) ==
    CASE c = "0" -> 0 [] c = "1" -> 1 [] c = "2" -> 2 [] c = "3" -> 3
      [] c = "4" -> 4 [] c = "5" -> 5 [] c = "6" -> 6 [] c = "7" -> 7
      [] c = "8" -> 8 [] c = "9" -> 9

\* the literal without its sign
Unsigned(s) == IF s # <<>> /\ Head(s) \in {"+", "-"} THEN Tail(s) ELSE s

IsFloatLiteral(s) ==
    LET u == Unsigned(str_strip(s)) IN
    /\ \A i \in 1..Len(u) : u[i] \in DigitChars \cup {"."}
    /\ Cardinality({i \in 1..Len(u) : u[i] = "."}) <= 1
    /\ \E i \in 1..Len(u) : u[i] \in DigitChars

RECURSIVE DigitsValue(_, _)
\* the integer written by the digits of u, the point skipped
DigitsValue(u, acc) ==
    IF u = <<>> THEN acc
    ELSE IF Head(u) = "." THEN DigitsValue(Tail(u), acc)
    ELSE DigitsValue(Tail(u), 10 * acc + DigitVal(Head(u)))

\* digits after the point
FracDigits(u) ==
    IF \E i \in 1..Len(u) : u[i] = "."
    THEN Len(u) - (CHOOSE i \in 1..Len(u) : u[i] = ".")
    ELSE 0

RECURSIVE Normal(_, _)
\* one representation per number: no trailing zero in the fraction
Normal(m, e) ==
    IF e > 0 /\ m % 10 = 0 THEN Normal(m \div 10, e - 1) ELSE Dec(m, e)

\* float(s): the number, or ValueError
float(s) ==
    IF ~IsFloatLiteral(s) THEN Raise("ValueError")
    ELSE LET t == str_strip(s)
             u == Unsigned(t)
             v == DigitsValue(u, 0)
         IN  Ok(Normal(IF t # <<>> /\ Head(t) = "-" THEN -v ELSE v,
                       FracDigits(u)))

-----------------------------------------------------------------------------
(* replace (lines 139-156) *)

replace(num) ==
    IF isna(num) THEN Ok(Num(0))
    ELSE IF num.t = "str"
         THEN float(str_replace(str_replace(num.s, ",", <<>>), "$", <<>>))
    ELSE IF num.t = "num" THEN Ok(num)
    ELSE Ok(Num(0))

-----------------------------------------------------------------------------
(* Tables: a pandas DataFrame                                               *)
(*   columns  the column labels                                             *)
(*   dup      labels carried by two columns (a rename onto a taken label)   *)
(*   dtype    the dtype of every column whose cells are modelled            *)
(*   affcols  the tokens t for which a column 'Affiliation: t' exists       *)
(*   rows     the rows in order; a row holds                                *)
(*     cell       column label -> cell                                      *)
(*     aff        its 'Affiliation List' (a list without repeats: a set)    *)
(*     flag       token -> its 'Affiliation: <token>' boolean               *)
(*     interests  its 'Interests' value                                     *)
(* The columns of the drop list, 'Primary Address' and the two date columns *)
(* are modelled by their label alone: no statement below reads their cells. *)

\* the columns dropped by clean_and_prepare_data (lines 42-58)
DropList == {
    "Other Country.1", "Other Major Gift Region.1", "Other Primary Metro.1",
    "Other Zip.1", "Other State.1", "Other City.1", "Other Address.1",
    "Other Address Incomplete?.1", "Other Type.1", "Other Country",
    "Other Major Gift Region", "Other Primary Metro", "Other Zip",
    "Other State", "Other City", "Other Address",
    "Other Address Is Primary?", "Other Address Incomplete?", "Other Type",
    "Home Address Incomplete?", "Home Address Is Primary?", "Work Country",
    "Work Primary Metro Area", "Work Major Gift Region", "Work Phone",
    "Work County", "Work Zip", "Work State", "Work City", "Work Address",
    "Work Address Is Primary?", "Work Address Incomplete?", "Career Level",
    "Full Name", "Title", "First Name", "Last/Name/Org Name",
    "Committee Name", "Committee Role", "Former Commitee Name",
    "Former Committee Role", "Spouse LookupID",
    "Formal Mailing Name (Joint/Individual)",
    "Informal Mailing Name (Joint/Individual)", "Payments Received",
    "Expectancies (Balance Due)", "Commitments (Balance Due)",
    "# of Recognition Transactions", "Number of Years of Recognition",
    "One-Time Gifts", "Commitments", "Expectancies", "A.6", "A.7", "A.5",
    "A.4", "A.8", "Payments Received.1", "A.9",
    "Commitments (Balance Due).1", "A.10", "Expectancies (Balance Due).1",
    "A.11", "Last Amount", "Last Designation",
    "# of Recognition Transactions.1", "Number of Years of Recognition.1",
    " Campaign Recognition", "A.12", "One-Time Gifts.1", "Commitments.1",
    "A.13", "A.14", "Expectancies.1", "A.15", "Last Visit/Introduction by",
    "Interaction Type", "Job Category", "Home Phone", "Monteith Society",
    "Primary Capacity Rating Type", "Primary Capacity Rating Date",
    "Primary Inclination Rating Type", "Primary Inclination Rating Date",
    "Gift Officer Field Rating", "Gift Officer Field Rating Date",
    "Research Rating", "Research Rating Date", "Capacity Verified Rating",
    "Capacity Verified Rating Date", "Capacity Unverified Rating",
    "Capacity Unverified Rating Date", "Blackbaud Hard Asset",
    "Blackbaud Hard Asset Date", "Wealth-X Net Worth",
    "Wealth-X Net Worth Date", "Windfall Data Net Worth",
    "Windfall Data Net Worth Date", "Target Analytics Net Worth",
    "Target Analytics Net Worth Date", "PDA UM Inclination",
    "UM AG Propensity", "Med Primary Manager"}

SYSID == "ConstituentSYSTEMID"
LookupID == "Constituent LookupID"
ISRCol == "Institute for Social Research\nLifetime Recognition"
UMCol == "UM-Wide\nLifetime Recognition"
ISRNumeric == "Institute for Social Research Lifetime Recognition Numeric"
UMNumeric == "UM-Wide Lifetime Recognition Numeric"
ConstAffil == "Constituent Affiliation"
LastUM == "Date of Last Recognition Transaction"
LastISR == "Date of Last Recognition Transaction.1"

\* the five home-address components, in the order lines 82, 286 and 287 read them
HomeFields ==
    <<"Home Address", "Home City", "Home State", "Home Zip", "Home Country">>
HomeCols == {HomeFields[i] : i \in 1..Len(HomeFields)}

\* labels whose cells are modelled
CellCols ==
    {SYSID, LookupID, "LID", ISRCol, UMCol, ISRNumeric, UMNumeric, "Age",
     ConstAffil, "Latitude", "Longitude", "latitude", "longitude",
     "donor_status"} \cup HomeCols

NoTable == [columns |-> {}, dup |-> {}, dtype |-> <<>>, affcols |-> {},
            rows |-> <<>>, exists |-> FALSE]

\* 'No Known Interests' (line 253)
NoKnownInterests == [known |-> FALSE, d |-> {}]

Restrict(f, S) == [x \in S |-> f[x]]
With(f, k, v) == [x \in DOMAIN f \cup {k} |-> IF x = k THEN v ELSE f[x]]
Without(f, S) == [x \in DOMAIN f \ S |-> f[x]]
\* f with key a relabelled b
Relabel(f, a, b) ==
    [x \in (DOMAIN f \ {a}) \cup {b} |-> IF x = b THEN f[a] ELSE f[x]]

SeqMap(Op(_), s) == [i \in 1..Len(s) |-> Op(s[i])]
Column(t, c) == [i \in 1..Len(t.rows) |-> t.rows[i].cell[c]]

\* the dtype pandas gives a column read from a file or built from values
InferDtype(cells) ==
    LET kinds == {cells[i].t : i \in 1..Len(cells)} IN
    IF "str" \in kinds THEN "object"
    ELSE IF "date" \in kinds
         THEN (IF "num" \in kinds THEN "object" ELSE "datetime64[ns]")
    ELSE IF "null" \in kinds \/ kinds = {} THEN "float64"
    ELSE IF \A i \in 1..Len(cells) : cells[i].e = 0 THEN "int64"
    ELSE "float64"

\* a table read by load_data / pd.read_csv from rows of cells
Loaded(columns, rows) ==
    [columns |-> columns, dup |-> {}, affcols |-> {}, exists |-> TRUE,
     dtype |-> [c \in columns \cap CellCols |->
                   InferDtype([i \in 1..Len(rows) |-> rows[i][c]])],
     rows |-> [i \in 1..Len(rows) |->
                  [cell |-> Restrict(rows[i], columns \cap CellCols),
                   aff |-> {}, flag |-> <<>>,
                   interests |-> NoKnownInterests]]]

\* df[c] = cells, a column assignment
SetColumn(t, c, cells, dtype) ==
    [t EXCEPT !.columns = @ \cup {c},
              !.dtype = With(@, c, dtype),
              !.rows = [i \in 1..Len(t.rows) |->
                           [t.rows[i] EXCEPT !.cell = With(@, c, cells[i])]]]

\* df.rename(columns={a: b}): nothing when a is absent; a second column
\* labelled b when b is taken
Rename(t, a, b) ==
    IF a \notin t.columns THEN t
    ELSE IF a \notin CellCols
         THEN [t EXCEPT !.columns = (@ \ {a}) \cup {b}]
    ELSE IF b \in t.columns
         THEN [t EXCEPT !.columns = @ \ {a},
                        !.dup = @ \cup {b},
                        !.dtype = Without(@, {a}),
                        !.rows = [i \in 1..Len(t.rows) |->
                                     [t.rows[i] EXCEPT !.cell = Without(@, {a})]]]
    ELSE [t EXCEPT !.columns = (@ \ {a}) \cup {b},
                   !.dtype = Relabel(@, a, b),
                   !.rows = [i \in 1..Len(t.rows) |->
                                [t.rows[i] EXCEPT !.cell = Relabel(@, a, b)]]]

-----------------------------------------------------------------------------
(* main, lines 339-356: reuse of previously geocoded coordinates *)

\* a text the model never looks inside
Lit(s) == Str(<<s>>)

RECURSIVE JoinFrom(_, _, _)
\* the rows of pd.merge(left, right[[SYSID, Latitude, Longitude]], how='left'):
\* left order kept, one row per matching right row, nulls when none matches
JoinFrom(left, right, i) ==
    IF i > Len(left) THEN <<>>
    ELSE LET l == left[i]
             ms == SelectSeq(right, LAMBDA r : r.cell[SYSID] = l.cell[SYSID])
             Joined(lat, lon) ==
                 [l EXCEPT !.cell = With(With(@, "Latitude", lat), "Longitude", lon)]
         IN  (IF ms = <<>> THEN <<Joined(Null, Null)>>
              ELSE [k \in 1..Len(ms) |->
                       Joined(ms[k].cell["Latitude"], ms[k].cell["Longitude"])])
             \o JoinFrom(left, right, i + 1)

LeftJoin(new, geo) ==
    LET rows == JoinFrom(new.rows, geo.rows, 1)
        t == [new EXCEPT !.columns = @ \cup {"Latitude", "Longitude"},
                         !.rows = rows]
    IN  [t EXCEPT !.dtype =
            With(With(@, "Latitude", InferDtype(Column(t, "Latitude"))),
                 "Longitude", InferDtype(Column(t, "Longitude")))]

\* The loaded table carries no 'Latitude'/'Longitude' of its own in the inputs
\* considered, so the merge adds the two columns without a suffix.
merge_geocoded(new, geo) ==
    IF ~geo.exists THEN Ok(new)
    ELSE LET g == IF {"latitude", "longitude"} \subseteq geo.columns
                  THEN Rename(Rename(geo, "latitude", "Latitude"),
                              "longitude", "Longitude")
                  ELSE geo
         IN  IF {"Latitude", "Longitude"} \subseteq g.columns
             THEN (IF SYSID \notin g.columns \/ SYSID \notin new.columns
                   THEN Raise("KeyError")
                   ELSE Ok(LeftJoin(new, g)))
             ELSE Ok(new)

-----------------------------------------------------------------------------
(* clean_and_prepare_data (lines 25-98) and UM_donor (lines 132-136) *)

\* line 85: map(lambda x: 'ISR Donor', na_action='ignore')
isr_status(isr) == IF isna(isr) THEN Null ELSE Lit("ISR Donor")

\* UM_donor without its test of donor_status
UM_donor_unguarded(donor_status, um) ==
    IF ~isna(um) THEN Lit("UM Donor") ELSE donor_status

\* UM_donor(row), with the row's donor_status and UM-wide field
UM_donor(donor_status, um) ==
    IF isna(donor_status) /\ ~isna(um) THEN Lit("UM Donor") ELSE donor_status

\* fillna(value) on one cell
fill_cell(x, value) == IF isna(x) THEN value ELSE x

\* lines 85-89 for one row
donor_status_of(isr, um) ==
    fill_cell(UM_donor(isr_status(isr), um), Lit("Non Donor"))

RECURSIVE Pow10(_)
Pow10(e) == IF e = 0 THEN 1 ELSE 10 * Pow10(e - 1)

\* pd.to_numeric(x, errors='coerce') on one cell
to_numeric(x) ==
    IF x.t = "num" THEN x
    ELSE IF x.t = "str" /\ IsFloatLiteral(x.s) THEN float(x.s).val
    ELSE Null

\* astype(int): truncation toward zero
as_int(x) ==
    Num(IF x.m >= 0 THEN x.m \div Pow10(x.e) ELSE -((-x.m) \div Pow10(x.e)))

\* line 96 for one cell
age_of(x) == as_int(fill_cell(to_numeric(x), Num(0)))

\* Series.map(replace): the first exception raised ends the map
map_replace(cells) ==
    IF \E i \in 1..Len(cells) : ~replace(cells[i]).ok
    THEN Raise("ValueError")
    ELSE Ok([i \in 1..Len(cells) |-> replace(cells[i]).val])

Nulls(t) == [i \in 1..Len(t.rows) |-> Null]

\* lines 72-79
prepare_coordinates(t) ==
    LET t1 == IF "Latitude" \notin t.columns \/ "Longitude" \notin t.columns
              THEN SetColumn(SetColumn(t, "Latitude", Nulls(t), "object"),
                             "Longitude", Nulls(t), "object")
              ELSE t
    IN  IF {"latitude", "longitude"} \subseteq t1.columns
        THEN Rename(Rename(t1, "latitude", "Latitude"), "longitude", "Longitude")
        ELSE t1

\* lines 81-96, on a table whose LID is established
derive_fields(t) ==
    IF ~(HomeCols \subseteq t.columns) THEN Raise("KeyError")
    ELSE IF ISRCol \notin t.columns \/ UMCol \notin t.columns
         THEN Raise("KeyError")
    ELSE LET t1 == [t EXCEPT !.columns = @ \cup {"Primary Address"}]
             t2 == SetColumn(t1, "donor_status",
                       [i \in 1..Len(t.rows) |->
                           donor_status_of(t.rows[i].cell[ISRCol],
                                           t.rows[i].cell[UMCol])],
                       "object")
             isr == map_replace(Column(t, ISRCol))
             um == map_replace(Column(t, UMCol))
         IN  IF ~isr.ok \/ ~um.ok THEN Raise("ValueError")
             ELSE IF "Age" \notin t.columns THEN Raise("KeyError")
             ELSE Ok(SetColumn(
                        SetColumn(
                            SetColumn(t2, ISRNumeric, isr.val, InferDtype(isr.val)),
                            UMNumeric, um.val, InferDtype(um.val)),
                        "Age", SeqMap(age_of, Column(t, "Age")), "int64"))

clean_and_prepare_data(t) ==
    IF ~(DropList \subseteq t.columns) THEN Raise("KeyError")
    ELSE LET t1 == Rename([t EXCEPT !.columns = @ \ DropList], LookupID, "LID")
         IN  IF "LID" \notin t1.columns THEN Ok(t1)
             ELSE derive_fields(prepare_coordinates(t1))

-----------------------------------------------------------------------------
(* create_affiliation_columns (lines 158-179) *)

Range(s) == {s[i] : i \in 1..Len(s)}

\* clean_affiliations: a float that is not NaN has no .replace
clean_affiliations(affiliation) ==
    IF isna(affiliation) THEN Ok({})
    ELSE IF affiliation.t # "str" THEN Raise("AttributeError")
    ELSE Ok(Range(str_split(str_replace(affiliation.s, "\n", <<",">>), ",")))

\* discovery that stops after the first row
discover_first_row(lists) == IF lists = <<>> THEN {} ELSE lists[1]

\* lines 172-174: the union over the whole 'Affiliation List' column
discover_affiliations(lists) == UNION {lists[i] : i \in 1..Len(lists)}

\* line 177: the flag of one row for one token
affiliation_flag(affil, x) == affil \in x

create_affiliation_columns(t) ==
    IF ConstAffil \notin t.columns THEN Ok([df |-> t, affiliations |-> {}])
    ELSE LET parsed == SeqMap(clean_affiliations, Column(t, ConstAffil)) IN
         IF \E i \in 1..Len(parsed) : ~parsed[i].ok THEN Raise("AttributeError")
         ELSE LET lists == [i \in 1..Len(parsed) |-> parsed[i].val]
                  all == discover_affiliations(lists)
              IN  Ok([df |-> [t EXCEPT
                            !.columns = @ \cup {"Affiliation List"},
                            !.affcols = @ \cup all,
                            !.rows = [i \in 1..Len(t.rows) |->
                                [t.rows[i] EXCEPT
                                    !.aff = lists[i],
                                    !.flag = [a \in t.affcols \cup all |->
                                                 IF a \in all
                                                 THEN affiliation_flag(a, lists[i])
                                                 ELSE @[a]]]]],
                      affiliations |-> all])

-----------------------------------------------------------------------------
(* collect_addresses_to_geocode (lines 272-289) *)

RECURSIVE all_fields(_, _)
\* line 287: all(notna(row[f]) and row[f].strip() != "" for f in the five
\* fields), left to right, stopping at the first False; a non-null value that
\* is not a str has no .strip
all_fields(row, k) ==
    IF k > Len(HomeFields) THEN Ok(TRUE)
    ELSE LET x == row.cell[HomeFields[k]] IN
         IF isna(x) THEN Ok(FALSE)
         ELSE IF x.t # "str" THEN Raise("AttributeError")
         ELSE IF str_strip(x.s) = <<>> THEN Ok(FALSE)
         ELSE all_fields(row, k + 1)

\* str(x) as the f-string of line 286 renders a cell; only the text of a str
\* cell is modelled, a selected row has no other
Rendered(x) == IF x.t = "str" THEN x.s ELSE <<x.t>>

\* line 286
address_of(row) ==
    LET f(k) == Rendered(row.cell[HomeFields[k]]) IN
    f(1) \o <<",", " ">> \o f(2) \o <<",", " ">> \o f(3) \o <<" ">> \o f(4)
         \o <<",", " ">> \o f(5)

\* one turn of the loop of line 284: whether the row is selected
needs_geocoding(t, row) ==
    IF ~({"Latitude", "Longitude"} \subseteq t.columns) THEN Raise("KeyError")
    ELSE IF t.dup \cap {"Latitude", "Longitude"} # {} THEN Raise("ValueError")
    ELSE IF isna(row.cell["Latitude"]) \/ isna(row.cell["Longitude"])
         THEN (IF ~(HomeCols \subseteq t.columns) THEN Raise("KeyError")
               ELSE all_fields(row, 1))
    ELSE Ok(FALSE)

collect_addresses_to_geocode(t) ==
    LET sel == [i \in 1..Len(t.rows) |-> needs_geocoding(t, t.rows[i])] IN
    IF \E i \in 1..Len(sel) : ~sel[i].ok
    THEN Raise(sel[CHOOSE i \in 1..Len(sel) :
                      ~sel[i].ok /\ \A j \in 1..(i - 1) : sel[j].ok].err)
    ELSE Ok([i \in {j \in 1..Len(sel) : sel[j].val} |-> address_of(t.rows[i])])

\* the keys of a dict over row positions, in insertion order
RECURSIVE Ascending(_)
Ascending(S) ==
    IF S = {} THEN <<>>
    ELSE LET lo == CHOOSE x \in S : \A y \in S : x <= y
         IN  <<lo>> \o Ascending(S \ {lo})

-----------------------------------------------------------------------------
(* batch_geocode_addresses (lines 291-317) *)

\* What one geocode(address, as_featureset=False) call can do:
\*   exception    the service call raises
\*   empty        it returns [], so [0] raises IndexError
\*   no_location  the first result has no 'location'
\*   no_y, no_x   the location lacks 'y', lacks 'x'
\*   ok           a location with both
GeocodeOutcomes == {"exception", "empty", "no_location", "no_y", "no_x", "ok"}

\* the coordinates a successful lookup returns
Location == [y |-> Num(42), x |-> Num(-83)]

SetCell(t, index, c, v) == [t EXCEPT !.rows[index].cell[c] = v]

\* lines 308-317: the body of the loop for one candidate
geocode_one(t, index, outcome) ==
    IF outcome \in {"exception", "empty"} THEN t                   \* line 309
    ELSE IF outcome \in {"no_location", "no_y"} THEN t             \* line 310
    ELSE LET t1 == SetCell(t, index, "Latitude", Location.y)       \* line 310
         IN  IF outcome = "no_x" THEN t1                           \* line 311
             ELSE SetCell(t1, index, "Longitude", Location.x)      \* line 311

-----------------------------------------------------------------------------
(* handle_interest_data, make_int_dic, add_int_data, merged_df_edits        *)
(* (lines 206-270). The interest table is [columns, rows], a row being      *)
(* [id, cat, sub, lvl]: its key, category, subcategory and level.           *)

InterestCols ==
    {"LID", "Interest Category", "Interest Subcategory", "Interest Level"}

\* interest_dic[id] after the loop of lines 225-226: for each category the
\* row written last
interest_entries(rows, id) ==
    {<<rows[i].cat, rows[i].sub, rows[i].lvl>> :
        i \in {j \in 1..Len(rows) :
                  /\ rows[j].id = id
                  /\ \A k \in (j + 1)..Len(rows) :
                        ~(rows[k].id = id /\ rows[k].cat = rows[j].cat)}}

\* add_int_data
add_int_data(id, rows) ==
    IF \E i \in 1..Len(rows) : rows[i].id = id
    THEN [known |-> TRUE, d |-> interest_entries(rows, id)]
    ELSE NoKnownInterests

\* drop_duplicates(subset='LID', keep='last')
drop_duplicates_last(rows) ==
    SelectSeq([i \in 1..Len(rows) |->
                  [row |-> rows[i],
                   first |-> \A j \in (i + 1)..Len(rows) :
                                 rows[j].cell["LID"] # rows[i].cell["LID"]]],
              LAMBDA p : p.first)

\* drop_duplicates(subset='LID', keep='first')
drop_duplicates(rows) ==
    SelectSeq([i \in 1..Len(rows) |->
                  [row |-> rows[i],
                   first |-> \A j \in 1..(i - 1) :
                                 rows[j].cell["LID"] # rows[i].cell["LID"]]],
              LAMBDA p : p.first)

KeptRows(rows) == [i \in 1..Len(drop_duplicates(rows)) |->
                      drop_duplicates(rows)[i].row]

merged_df_edits(t) ==
    LET t1 == Rename(Rename(t, LastUM, "Date of Last UM Recognition Transaction"),
                     LastISR, "Date of Last ISR Recognition Transaction")
    IN  [t1 EXCEPT !.rows = KeptRows(t1.rows)]

handle_interest_data(t, idf) ==
    LET cols == IF LookupID \in idf.columns
                THEN (idf.columns \ {LookupID}) \cup {"LID"}
                ELSE idf.columns
    IN  IF idf.rows # <<>> /\ ~(InterestCols \subseteq cols) THEN Raise("KeyError")
        ELSE IF "LID" \notin t.columns THEN Raise("KeyError")
        ELSE Ok(merged_df_edits(
                 [t EXCEPT !.columns = @ \cup {"Interests"},
                           !.rows = [i \in 1..Len(t.rows) |->
                               [t.rows[i] EXCEPT !.interests =
                                   add_int_data(t.rows[i].cell["LID"], idf.rows)]]]))

-----------------------------------------------------------------------------
(* fill_missing_values (lines 100-130). A frame is a function from column   *)
(* labels to columns [dtype, cells, categories]. The inplace fillna on      *)
(* df[column] reaches the frame, as it does in the pandas releases (before  *)
(* 3.0) the script was written for.                                         *)

Bool(b) == [t |-> "bool", s |-> <<>>, m |-> IF b THEN 1 ELSE 0, e |-> 0]

NotAvailable == Lit("Not Available")

\* fill_values.get(dtype, 'Not Available') (lines 109-116, 122)
fill_value_for(dtype) ==
    CASE dtype = "object" -> NotAvailable
      [] dtype = "float64" -> Num(0)
      [] dtype = "int64" -> Num(0)
      [] dtype = "datetime64[ns]" -> Date(19000101)
      [] dtype = "bool" -> Bool(FALSE)
      [] dtype = "category" -> NotAvailable
      [] OTHER -> NotAvailable

\* pandas' nullable extension dtypes: a value of another type is refused
MaskedDtypes == {"Int64", "Float64", "boolean"}
\* numpy dtypes that hold only their own kind and are cast to object for others
NumericDtypes == {"float64", "float32", "int64"}

\* Series.fillna(value) as pandas does it for the column's dtype
fillna(col, value) ==
    LET filled == [i \in 1..Len(col.cells) |-> fill_cell(col.cells[i], value)] IN
    IF col.dtype = "category"
    THEN (IF value \in col.categories
          THEN Ok([col EXCEPT !.cells = filled])
          ELSE Raise("TypeError"))
    ELSE IF col.dtype \in MaskedDtypes
         THEN (IF (col.dtype = "boolean" /\ value.t = "bool")
                  \/ (col.dtype # "boolean" /\ value.t = "num")
               THEN Ok([col EXCEPT !.cells = filled])
               ELSE Raise("TypeError"))
    ELSE IF \/ col.dtype \in NumericDtypes /\ value.t # "num"
            \/ col.dtype = "datetime64[ns]" /\ value.t # "date"
            \/ col.dtype = "bool" /\ value.t # "bool"
         THEN Ok([col EXCEPT !.cells = filled, !.dtype = "object"])
    ELSE Ok([col EXCEPT !.cells = filled])

\* lines 120-128 for one column
fill_column(col) ==
    IF \E i \in 1..Len(col.cells) : isna(col.cells[i])
    THEN LET fill_value == fill_value_for(col.dtype)
             col1 == IF col.dtype = "category"
                        /\ NotAvailable \notin col.categories
                     THEN [col EXCEPT !.categories = @ \cup {NotAvailable}]
                     ELSE col
         IN  fillna(col1, fill_value)
    ELSE Ok(col)

fill_missing_values(frame) ==
    IF \E c \in DOMAIN frame : ~fill_column(frame[c]).ok THEN Raise("TypeError")
    ELSE Ok([c \in DOMAIN frame |-> fill_column(frame[c]).val])

\* the columns of a table as a frame, and back; 'Affiliation List', the
\* affiliation flags, 'Interests' and 'Primary Address' never hold a null
FrameOf(t) ==
    [c \in DOMAIN t.dtype |->
        [dtype |-> t.dtype[c], cells |-> Column(t, c), categories |-> {}]]

WithFrame(t, frame) ==
    [t EXCEPT !.dtype = [c \in DOMAIN frame |-> frame[c].dtype],
              !.rows = [i \in 1..Len(t.rows) |->
                           [t.rows[i] EXCEPT !.cell =
                               [c \in DOMAIN frame |-> frame[c].cells[i]]]]]

-----------------------------------------------------------------------------
(* save_affiliation_files (lines 181-203) *)

\* line 199
filename_of(affil) ==
    str_replace(str_replace(affil, " ", <<"_">>), "/", <<"-">>)
        \o <<"-layer.csv">>

\* line 197: the rows whose flag for affil is true
sub_df(t, affil) == SelectSeq(t.rows, LAMBDA r : r.flag[affil])

\* lines 195-203 for one token: the directory afterwards
save_affiliation_file(dir, t, affil) ==
    IF affil \in t.affcols /\ sub_df(t, affil) # <<>>
    THEN With(dir, filename_of(affil), sub_df(t, affil))
    ELSE dir

-----------------------------------------------------------------------------
(* Inputs: the three files main loads. The input space is a union of        *)
(* families, each varying the cells one stage reads and holding the rest at *)
(* a base value; a family is an operator from a few parameters to the three *)
(* tables, and the set its parameters range over.                           *)

T(a) == <<a>>
Keys == {1, 2}

InputCols == {SYSID, LookupID, ISRCol, UMCol, "Age", ConstAffil} \cup HomeCols
AllInputColumns == InputCols \cup DropList \cup {LastUM, LastISR}

\* a complete home address, and one whose state is missing
CompleteHome == [c \in HomeCols |-> Str(T("x"))]
IncompleteHome == [CompleteHome EXCEPT !["Home State"] = Null]

\* a row of the export as read from the file
RawRow(sys, lid, home, isr, um, age, aff) ==
    [c \in InputCols \cup {"latitude", "longitude"} |->
        CASE c = SYSID -> Num(sys)
          [] c = LookupID -> Num(lid)
          [] c \in HomeCols -> home[c]
          [] c = ISRCol -> isr
          [] c = UMCol -> um
          [] c = "Age" -> age
          [] c = ConstAffil -> aff
          [] OTHER -> Null]

BaseRow(i, home) == RawRow(i, i, home, Null, Null, Num(30), Str(T("A")))

SeqsUpTo(S, lo, n) == UNION {[1..k -> S] : k \in lo..n}

MainTable(rows, missing, extra) ==
    Loaded((AllInputColumns \ missing) \cup extra, rows)

\* a row of the reference file; style says how its columns are labelled
RefRow(sys, lat, lon) ==
    [c \in {SYSID, "Latitude", "Longitude", "latitude", "longitude"} |->
        CASE c = SYSID -> Num(sys)
          [] c \in {"Latitude", "latitude"} -> lat
          [] OTHER -> lon]

RefColumns(style) ==
    CASE style = "lower" -> {SYSID, "latitude", "longitude"}
      [] style = "title" -> {SYSID, "Latitude", "Longitude"}
      [] style = "no_longitude" -> {SYSID, "Latitude"}
      [] style = "no_sysid" -> {"Latitude", "Longitude"}

RefTable(style, rows) == Loaded(RefColumns(style), rows)

Known == RefRow(1, Num(7), Num(8))

InterestTable(rows) ==
    [columns |-> {LookupID, "Interest Category", "Interest Subcategory",
                  "Interest Level"},
     rows |-> rows]

Interest(id, cat, sub, lvl) ==
    [id |-> Num(id), cat |-> cat, sub |-> sub, lvl |-> lvl]

BaseInterest == InterestTable(<<Interest(1, "Health", "Aging", "High")>>)

Input(new, geo, interest) == [new |-> new, geo |-> geo, interest |-> interest]

NoRef == [exists |-> FALSE, style |-> "lower", rows |-> <<>>]
Ref(style, rows) == [exists |-> TRUE, style |-> style, rows |-> rows]

\* the reference table of a parameter: its rows are <<key, latitude, longitude>>
RefOf(ref) ==
    IF ref.exists
    THEN RefTable(ref.style,
                  [i \in 1..Len(ref.rows) |->
                      RefRow(ref.rows[i][1], ref.rows[i][2], ref.rows[i][3])])
    ELSE NoTable

\* schema: expected columns missing, stray lowercase coordinate columns,
\* reference files of every labelling
SchemaVictims ==
    {"Other Country.1", LookupID, ConstAffil, "Home Zip", "Age", SYSID}

SchemaRefs ==
    {NoRef} \cup {Ref(s, <<<<1, Num(7), Num(8)>>>>) :
                     s \in {"lower", "title", "no_longitude", "no_sysid"}}

SchemaInput(n, missing, extra, ref) ==
    Input(MainTable([i \in 1..n |-> BaseRow(i, CompleteHome)], missing, extra),
          RefOf(ref), BaseInterest)

\* keys: repeated LID and ConstituentSYSTEMID, reference rows that match
\* none, one or several rows; a row is <<ConstituentSYSTEMID, LookupID>>
KeyRows == SeqsUpTo(Keys \X Keys, 1, MaxRows)

KeyRefs ==
    {NoRef} \cup
    {Ref("lower", rows) :
        rows \in SeqsUpTo(Keys \X {Num(7), Num(9)} \X {Num(8)}, 0, MaxRef)}

KeysInput(rows, ref) ==
    Input(MainTable([i \in 1..Len(rows) |->
                        RawRow(rows[i][1], rows[i][2], CompleteHome, Null, Null,
                               Num(30), Str(T("A")))],
                    {}, {}),
          RefOf(ref), BaseInterest)

\* interests: no row, one row, a category written twice, two constituents
InterestTables ==
    {InterestTable(<<>>),
     BaseInterest,
     InterestTable(<<Interest(1, "Health", "Aging", "High"),
                     Interest(1, "Health", "Aging", "Low")>>),
     InterestTable(<<Interest(2, "Arts", "Music", "Low"),
                     Interest(1, "Health", "Aging", "High"),
                     Interest(2, "Health", "Policy", "High")>>)}

InterestInput(lids, interest) ==
    Input(MainTable([i \in 1..Len(lids) |->
                        RawRow(1, lids[i], IncompleteHome, Null, Null, Num(30),
                               Str(T("A")))],
                    {}, {}),
          NoTable, interest)

\* affiliations: both separators, a token repeated in a row, an empty token,
\* tokens that differ only in the characters a filename replaces; a row is
\* <<LookupID, affiliation>>
AffiliationValues ==
    {Null,
     Str(<<"A">>),
     Str(<<"A", "\n", "B", ",", "A">>),
     Str(<<"A", " ", "B">>),
     Str(<<"A", "_", "B">>),
     Str(<<"A", "/", "B", ",">>)}

AffiliationInput(rows) ==
    Input(MainTable([i \in 1..Len(rows) |->
                        RawRow(1, rows[i][1], IncompleteHome, Null, Null,
                               Num(30), rows[i][2])],
                    {}, {}),
          NoTable, BaseInterest)

\* money: the two lifetime-recognition cells, null, a number, currency text
\* and text that is no number; a row is <<ISR, UM-wide>>
MoneyValues ==
    {Null, Num(5), Str(<<"$", "1", ",", "2", "3", "4", ".", "5", "0">>),
     Str(<<"x">>)}

MoneyInput(rows) ==
    Input(MainTable([i \in 1..Len(rows) |->
                        RawRow(1, 1, IncompleteHome, rows[i][1], rows[i][2],
                               Num(30), Str(T("A")))],
                    {}, {}),
          NoTable, BaseInterest)

\* age: missing, integral, fractional, numeric text, other text
AgeValues ==
    {Null, Num(30), Dec(305, 1), Str(<<"4", "1">>), Str(<<"x">>)}

AgeInput(ages) ==
    Input(MainTable([i \in 1..Len(ages) |->
                        RawRow(1, 1, IncompleteHome, Null, Null, ages[i],
                               Str(T("A")))],
                    {}, {}),
          NoTable, BaseInterest)

\* addresses: one row, every combination of null, blank, text and number in
\* the five components, with and without reference coordinates
HomeValues == {Null, Str(<<" ">>), Str(<<"x">>), Num(48104)}

AddressRefs ==
    {NoRef} \cup
    {Ref("lower", <<r>>) :
        r \in {<<1, Num(7), Num(8)>>, <<1, Num(7), Null>>, <<1, Null, Num(8)>>}}

AddressInput(home, ref) ==
    Input(MainTable(<<RawRow(1, 1, home, Null, Null, Num(30), Str(T("A")))>>,
                    {}, {}),
          RefOf(ref), BaseInterest)

\* geocoding: several candidates, some with one coordinate already known;
\* a row is told by what the reference file knows of it
GeoInput(coords) ==
    Input(MainTable([i \in 1..Len(coords) |-> BaseRow(i, CompleteHome)], {}, {}),
          RefTable("lower",
                   [i \in 1..Len(coords) |->
                       RefRow(IF coords[i] = "none" THEN 0 ELSE i,
                              IF coords[i] \in {"both", "lat"} THEN Num(7) ELSE Null,
                              IF coords[i] \in {"both", "lon"} THEN Num(8) ELSE Null)]),
          BaseInterest)

\* the files are loaded
Load(in) ==
    /\ new_data = in.new
    /\ geocoded_data = in.geo
    /\ interest_df = in.interest

LoadInputs ==
    \/ \E n \in 1..MaxRows, missing \in SUBSET SchemaVictims,
          extra \in {{}, {"latitude", "longitude"}}, ref \in SchemaRefs :
          Load(SchemaInput(n, missing, extra, ref))
    \/ \E rows \in KeyRows, ref \in KeyRefs : Load(KeysInput(rows, ref))
    \/ \E lids \in SeqsUpTo(Keys, 1, MaxRows), interest \in InterestTables :
          Load(InterestInput(lids, interest))
    \/ \E rows \in SeqsUpTo(Keys \X AffiliationValues, 1, MaxRows) :
          Load(AffiliationInput(rows))
    \/ \E rows \in SeqsUpTo(MoneyValues \X MoneyValues, 1, MaxRows) :
          Load(MoneyInput(rows))
    \/ \E ages \in SeqsUpTo(AgeValues, 1, MaxRows) : Load(AgeInput(ages))
    \/ \E home \in [HomeCols -> HomeValues], ref \in AddressRefs :
          Load(AddressInput(home, ref))
    \/ \E coords \in SeqsUpTo({"none", "both", "lat", "lon"}, 1, MaxRows) :
          Load(GeoInput(coords))

-----------------------------------------------------------------------------
(* main (lines 319-392), one action per stage *)

NoError == [kind |-> "none", at |-> "none"]

Init ==
    /\ LoadInputs
    /\ pc = "merge"
    /\ df = NoTable
    /\ all_affiliations = {}
    /\ addresses_to_geocode = <<>>
    /\ todo = <<>>
    /\ calls = <<>>
    /\ error = NoError
    /\ processed_csv = <<>>
    /\ affiliations = {}
    /\ files = <<>>
    /\ arg = Null
    /\ ret = Null

\* an exception nothing catches ends the run
Abort(kind) ==
    /\ pc' = "aborted"
    /\ error' = [kind |-> kind, at |-> pc]

\* lines 339-356
Merge ==
    /\ pc = "merge"
    /\ LET r == merge_geocoded(new_data, geocoded_data) IN
       IF r.ok
       THEN /\ df' = r.val
            /\ pc' = "clean"
            /\ error' = error
       ELSE /\ Abort(r.err)
            /\ df' = df
    /\ UNCHANGED <<new_data, geocoded_data, interest_df, all_affiliations,
                   addresses_to_geocode, todo, calls, processed_csv,
                   affiliations, files, arg, ret>>

\* line 360
Clean ==
    /\ pc = "clean"
    /\ LET r == clean_and_prepare_data(df) IN
       IF r.ok
       THEN /\ df' = r.val
            /\ pc' = "affiliation"
            /\ error' = error
       ELSE /\ Abort(r.err)
            /\ df' = df
    /\ UNCHANGED <<new_data, geocoded_data, interest_df, all_affiliations,
                   addresses_to_geocode, todo, calls, processed_csv,
                   affiliations, files, arg, ret>>

\* line 364
CreateAffiliation ==
    /\ pc = "affiliation"
    /\ LET r == create_affiliation_columns(df) IN
       IF r.ok
       THEN /\ df' = r.val.df
            /\ all_affiliations' = r.val.affiliations
            /\ pc' = "collect"
            /\ error' = error
       ELSE /\ Abort(r.err)
            /\ UNCHANGED <<df, all_affiliations>>
    /\ UNCHANGED <<new_data, geocoded_data, interest_df, addresses_to_geocode,
                   todo, calls, processed_csv, affiliations, files, arg, ret>>

\* lines 367-370: the batch runs only when there is a candidate
Collect ==
    /\ pc = "collect"
    /\ LET r == collect_addresses_to_geocode(df) IN
       IF r.ok
       THEN /\ addresses_to_geocode' = r.val
            /\ todo' = Ascending(DOMAIN r.val)
            /\ pc' = IF DOMAIN r.val # {} THEN "geocode" ELSE "interest"
            /\ error' = error
       ELSE /\ Abort(r.err)
            /\ UNCHANGED <<addresses_to_geocode, todo>>
    /\ UNCHANGED <<new_data, geocoded_data, interest_df, df, all_affiliations,
                   calls, processed_csv, affiliations, files, arg, ret>>

\* the loop without its try/except: a failed lookup ends the run
GeocodeUncaught ==
    /\ pc = "geocode"
    /\ todo # <<>>
    /\ \E outcome \in GeocodeOutcomes :
          /\ df' = geocode_one(df, Head(todo), outcome)
          /\ calls' = Append(calls, [index |-> Head(todo),
                                     address |-> addresses_to_geocode[Head(todo)],
                                     ok |-> outcome = "ok"])
          /\ IF outcome = "ok"
             THEN /\ pc' = IF Tail(todo) = <<>> THEN "interest" ELSE "geocode"
                  /\ error' = error
             ELSE Abort("Exception")
    /\ todo' = Tail(todo)
    /\ UNCHANGED <<new_data, geocoded_data, interest_df, all_affiliations,
                   addresses_to_geocode, processed_csv, affiliations,
                   files, arg, ret>>

\* line 372: one turn of the loop of batch_geocode_addresses; the except
\* clause swallows whatever the turn raises
Geocode ==
    /\ pc = "geocode"
    /\ todo # <<>>
    /\ \E outcome \in GeocodeOutcomes :
          /\ df' = geocode_one(df, Head(todo), outcome)
          /\ calls' = Append(calls, [index |-> Head(todo),
                                     address |-> addresses_to_geocode[Head(todo)],
                                     ok |-> outcome = "ok"])
    /\ todo' = Tail(todo)
    /\ pc' = IF Tail(todo) = <<>> THEN "interest" ELSE "geocode"
    /\ UNCHANGED <<new_data, geocoded_data, interest_df, all_affiliations,
                   addresses_to_geocode, error, processed_csv, affiliations,
                   files, arg, ret>>

\* line 376
HandleInterest ==
    /\ pc = "interest"
    /\ LET r == handle_interest_data(df, interest_df) IN
       IF r.ok
       THEN /\ df' = r.val
            /\ pc' = "fill"
            /\ error' = error
       ELSE /\ Abort(r.err)
            /\ df' = df
    /\ UNCHANGED <<new_data, geocoded_data, interest_df, all_affiliations,
                   addresses_to_geocode, todo, calls, processed_csv,
                   affiliations, files, arg, ret>>

\* line 380
FillMissing ==
    /\ pc = "fill"
    /\ LET r == fill_missing_values(FrameOf(df)) IN
       IF r.ok
       THEN /\ df' = WithFrame(df, r.val)
            /\ pc' = "save"
            /\ error' = error
       ELSE /\ Abort(r.err)
            /\ df' = df
    /\ UNCHANGED <<new_data, geocoded_data, interest_df, all_affiliations,
                   addresses_to_geocode, todo, calls, processed_csv,
                   affiliations, files, arg, ret>>

\* lines 384-389: the master file, then the tokens read back off the columns
SaveProcessed ==
    /\ pc = "save"
    /\ processed_csv' = df.rows
    /\ affiliations' = df.affcols
    /\ pc' = IF df.affcols = {} THEN "done" ELSE "layers"
    /\ UNCHANGED <<new_data, geocoded_data, interest_df, df, all_affiliations,
                   addresses_to_geocode, todo, calls, error, files, arg, ret>>

\* line 392: one turn of the loop of save_affiliation_files; the columns are
\* in the order a Python set of str was iterated, which is any order
SaveAffiliation ==
    /\ pc = "layers"
    /\ \E affil \in affiliations :
          /\ files' = save_affiliation_file(files, df, affil)
          /\ affiliations' = affiliations \ {affil}
          /\ pc' = IF affiliations = {affil} THEN "done" ELSE "layers"
    /\ UNCHANGED <<new_data, geocoded_data, interest_df, df, all_affiliations,
                   addresses_to_geocode, todo, calls, error, processed_csv,
                   arg, ret>>

Next ==
    \/ Merge
    \/ Clean
    \/ CreateAffiliation
    \/ Collect
    \/ Geocode
    \/ HandleInterest
    \/ FillMissing
    \/ SaveProcessed
    \/ SaveAffiliation

Spec == Init /\ [][Next]_vars

-----------------------------------------------------------------------------
(* replace and fill_missing_values called on their own, on any argument *)

Idle ==
    /\ new_data = NoTable
    /\ geocoded_data = NoTable
    /\ interest_df = InterestTable(<<>>)
    /\ df = NoTable
    /\ all_affiliations = {}
    /\ addresses_to_geocode = <<>>
    /\ todo = <<>>
    /\ calls = <<>>
    /\ error = NoError
    /\ processed_csv = <<>>
    /\ affiliations = {}
    /\ files = <<>>

ReplaceAlphabet == {"$", ",", ".", "0", "1", "x", " "}

ReplaceInputs ==
    {Null, Num(42), Num(-7), Dec(15, 1), Date(20240101),
     Str(<<"$", "1", ",", "2", "3", "4", ".", "5", "0">>)}
        \cup {Str(s) : s \in TextsUpTo(ReplaceAlphabet, MaxLen)}

InitReplace ==
    /\ Idle
    /\ pc = "replace"
    /\ arg \in ReplaceInputs
    /\ ret = Null

CallReplace ==
    /\ pc = "replace"
    /\ ret' = replace(arg)
    /\ pc' = "replaced"
    /\ UNCHANGED <<new_data, geocoded_data, interest_df, df, all_affiliations,
                   addresses_to_geocode, todo, calls, error, processed_csv,
                   affiliations, files, arg>>

SpecReplace == InitReplace /\ [][CallReplace]_vars

\* the cells a column of each dtype can hold: int64 and bool have no null
CellsOf(dtype) ==
    CASE dtype = "object" -> {Null, Str(T("x")), Num(1)}
      [] dtype \in {"float64", "float32", "Int64"} -> {Null, Num(1)}
      [] dtype = "int64" -> {Num(1), Num(2)}
      [] dtype = "datetime64[ns]" -> {Null, Date(20240101)}
      [] dtype = "bool" -> {Bool(TRUE), Bool(FALSE)}
      [] dtype = "category" -> {Null, Str(T("a"))}

FrameDtypes ==
    {"object", "float64", "int64", "datetime64[ns]", "bool", "category",
     "float32", "Int64"}

CategoriesOf(dtype) ==
    IF dtype = "category"
    THEN {{Str(T("a"))}, {Str(T("a")), NotAvailable}}
    ELSE {{}}

ColumnsOf(dtype) ==
    {[dtype |-> dtype, cells |-> cells, categories |-> cats] :
        cells \in [1..MaxRows -> CellsOf(dtype)], cats \in CategoriesOf(dtype)}

FrameColumns == UNION {ColumnsOf(d) : d \in FrameDtypes}

InitFill ==
    /\ Idle
    /\ pc = "fill_missing_values"
    /\ arg \in SeqsUpTo(FrameColumns, 0, MaxCols)
    /\ ret = Null

CallFill ==
    /\ pc = "fill_missing_values"
    /\ ret' = fill_missing_values(arg)
    /\ pc' = "filled"
    /\ UNCHANGED <<new_data, geocoded_data, interest_df, df, all_affiliations,
                   addresses_to_geocode, todo, calls, error, processed_csv,
                   affiliations, files, arg>>

SpecFill == InitFill /\ [][CallFill]_vars

-----------------------------------------------------------------------------
(* Properties *)

Rows(t) == 1..Len(t.rows)

\* the expected columns the loaded table lacks
MissingColumns == AllInputColumns \ new_data.columns

\* C1: schema errors are never fatal: when the loaded table lacks columns of
\* the drop list or 'Constituent LookupID' (and no other, the reference file
\* being absent or keyed), the run does not end in the KeyError of a missing
\* column: every later stage completes and the Writer is reached.
C1_SchemaErrorsNeverFatal ==
    (/\ MissingColumns # {}
     /\ MissingColumns \subseteq DropList \cup {LookupID}
     /\ geocoded_data.exists => SYSID \in geocoded_data.columns)
        => ~(pc = "aborted" /\ error.kind = "KeyError")

\* C2: after fill_missing_values returns, no cell of the frame is null,
\* whatever the dtype of its column, and the fill itself does not fail.
C2_NoNullAfterFill ==
    pc = "filled" =>
        /\ ret.ok
        /\ \A c \in DOMAIN ret.val :
              \A i \in 1..Len(ret.val[c].cells) : ~isna(ret.val[c].cells[i])

\* the table main hands to clean_and_prepare_data
Merged == merge_geocoded(new_data, geocoded_data).val

\* the first row of the merged table with the given 'Constituent LookupID'
FirstMerged(lid) ==
    Merged.rows[CHOOSE i \in Rows(Merged) :
                   /\ Merged.rows[i].cell[LookupID] = lid
                   /\ \A j \in 1..(i - 1) : Merged.rows[j].cell[LookupID] # lid]

\* the first row of the loaded table with the given 'Constituent LookupID'
FirstLoaded(lid) ==
    new_data.rows[CHOOSE i \in Rows(new_data) :
                     /\ new_data.rows[i].cell[LookupID] = lid
                     /\ \A j \in 1..(i - 1) : new_data.rows[j].cell[LookupID] # lid]

\* the columns that reach the output as they were loaded
CarriedCols == (InputCols \ {LookupID, "Age"})

PresentTokens == UNION {df.rows[i].aff : i \in Rows(df)}

\* the tokens of the rows of the table create_affiliation_columns scanned
ScannedTokens ==
    UNION {clean_affiliations(new_data.rows[i].cell[ConstAffil]).val :
              i \in Rows(new_data)}

FlagsAreMembership ==
    \A i \in Rows(df) :
        /\ DOMAIN df.rows[i].flag = df.affcols
        /\ \A a \in df.affcols : df.rows[i].flag[a] = (a \in df.rows[i].aff)

\* C4 as stated: from the end of create_affiliation_columns through the
\* Writer, de-duplication included, the 'Affiliation: <token>' columns are the
\* same for all rows and are exactly the union of the 'Affiliation List' sets
\* of the rows of that table, each flag being membership in the row's set.
C4_ColumnsArePresentTokens ==
    "Affiliation List" \in df.columns =>
        /\ FlagsAreMembership
        /\ df.affcols = PresentTokens

\* C4 as amended: the columns are the same for all rows and are exactly the
\* union of the token sets of the rows the table had when
\* create_affiliation_columns scanned it; each flag is membership in the
\* row's set; up to de-duplication that union is the union over the present
\* rows, afterwards it contains it.
C4_ColumnsAreScannedTokens ==
    "Affiliation List" \in df.columns =>
        /\ FlagsAreMembership
        /\ df.affcols = ScannedTokens
        /\ df.affcols = all_affiliations
        /\ PresentTokens \subseteq df.affcols
        /\ pc \in {"collect", "geocode", "interest"} => PresentTokens = df.affcols

\* de-duplication has dropped the only row holding some token, whose column
\* stays, while another token is still flagged
C4_Witness ==
    /\ pc = "done"
    /\ PresentTokens # {}
    /\ PresentTokens # df.affcols
    /\ Len(df.rows) < Len(new_data.rows)

\* the table batch_geocode_addresses was given
BeforeBatch == clean_and_prepare_data(Merged).val

\* C5: a failed lookup leaves the coordinates of its row as they were, both
\* null when both were null: no failed lookup leaves a row with one
\* coordinate written and the other still null.
C5_FailedLookupWritesNothing ==
    pc \in {"geocode", "interest"} =>
        \A k \in 1..Len(calls) :
            ~calls[k].ok =>
                LET i == calls[k].index IN
                /\ df.rows[i].cell["Latitude"] = BeforeBatch.rows[i].cell["Latitude"]
                /\ df.rows[i].cell["Longitude"] = BeforeBatch.rows[i].cell["Longitude"]

Candidates == Ascending(DOMAIN addresses_to_geocode)
Visited == [k \in 1..Len(calls) |-> calls[k].index]

ShouldSelect(row) ==
    /\ isna(row.cell["Latitude"]) \/ isna(row.cell["Longitude"])
    /\ \A c \in HomeCols :
          /\ ~isna(row.cell[c])
          /\ ~(row.cell[c].t = "str" /\ str_strip(row.cell[c].s) = <<>>)

\* C7: on a table that has the coordinate and home-address columns,
\* collect_addresses_to_geocode completes without error and selects a row if
\* and only if ShouldSelect holds of it.
C7_SelectsExactlyCompleteRows ==
    (df.exists /\ {"Latitude", "Longitude"} \cup HomeCols \subseteq df.columns
        /\ df.dup = {}) =>
        /\ ~(pc = "aborted" /\ error.at = "collect")
        /\ (pc \in {"geocode", "interest"} /\ calls = <<>>) =>
              DOMAIN addresses_to_geocode = {i \in Rows(df) : ShouldSelect(df.rows[i])}

\* what replace is to return: 0 for a null, the number for a number, the
\* parsed number for text that is a number once ',' and '$' are stripped, 0
\* for any other text or value
ReplaceResult(num) ==
    IF num.t = "num" THEN num
    ELSE IF num.t = "str"
            /\ IsFloatLiteral(str_replace(str_replace(num.s, ",", <<>>), "$", <<>>))
         THEN float(str_replace(str_replace(num.s, ",", <<>>), "$", <<>>)).val
    ELSE Num(0)

\* C8: replace never surfaces an error and returns ReplaceResult.
C8_ReplaceNeverRaises ==
    pc = "replaced" => (ret.ok /\ ret.val = ReplaceResult(arg))

\* the tokens with at least one row flagged in the final table
LiveTokens == {a \in df.affcols : sub_df(df, a) # <<>>}

\* C9: after the Writer the directory holds one file per token with a flagged
\* row and no other file, each token's file holding exactly the rows flagged
\* for it, so no two tokens share a file.
C9_OneFilePerToken ==
    pc = "done" =>
        /\ DOMAIN files = {filename_of(a) : a \in LiveTokens}
        /\ \A a \in LiveTokens : files[filename_of(a)] = sub_df(df, a)
        /\ \A a, b \in LiveTokens : a # b => filename_of(a) # filename_of(b)

\* C10: donor_status is 'ISR Donor' when the ISR field is non-null, 'UM Donor'
\* when the ISR field is null and the UM-wide field is not, 'Non Donor' when
\* both are null.
C10_DonorStatus ==
    (pc \in {"affiliation", "collect", "geocode", "interest", "fill"}
        /\ "donor_status" \in df.columns) =>
        \A i \in Rows(df) :
            LET isr == df.rows[i].cell[ISRCol]
                um == df.rows[i].cell[UMCol]
                status == df.rows[i].cell["donor_status"]
            IN  /\ ~isna(isr) => status = Lit("ISR Donor")
                /\ (isna(isr) /\ ~isna(um)) => status = Lit("UM Donor")
                /\ (isna(isr) /\ isna(um)) => status = Lit("Non Donor")

\* the tie (both fields non-null) and the UM-only case in one table
C10_Witness ==
    /\ pc = "affiliation"
    /\ "donor_status" \in df.columns
    /\ \E i \in Rows(df) :
          /\ ~isna(df.rows[i].cell[ISRCol]) /\ ~isna(df.rows[i].cell[UMCol])
          /\ df.rows[i].cell["donor_status"] = Lit("ISR Donor")
    /\ \E i \in Rows(df) :
          /\ isna(df.rows[i].cell[ISRCol]) /\ ~isna(df.rows[i].cell[UMCol])
          /\ df.rows[i].cell["donor_status"] = Lit("UM Donor")

=============================================================================
